---- MODULE Spec2Model ----
(***************************************************************************)
(* A model of tailrelay-ui: the Caddy reverse-proxy route manager          *)
(* (caddy.py), the socat relay supervisor (socat.py) and the Flask proxy   *)
(* API (app.py).                                                           *)
(*                                                                         *)
(* The subsystems share no state and are specified separately:             *)
(*   SpecRoute  - caddy.py against the Caddy admin API and caddy_servers   *)
(*   SpecProxy  - app.py against the OS process table and proxy_processes  *)
(*   SpecSocat  - socat.py against the OS process table and socat_relays   *)
(*   SpecCodec  - identity derivation and ConfigCodec on single routes     *)
(*   SpecStop   - the stop operations of caddy.py and socat.py together    *)
(*   SpecRecover   - stop_caddy_server on blocks the table lacks           *)
(*   SpecStartRace - start_proxy of app.py served by two threads           *)
(*   SpecStopRace  - SocatRelay.stop interleaved with process exits        *)
(*   SpecOwners    - get_socat_processes over any order of pgrep lines     *)
(*   SpecConflict  - start_proxy on ports bound by other processes         *)
(*   SpecStatus    - the status setter and getter of both relay classes    *)
(*   SpecValidate  - creates with missing or invalid input                 *)
(*   SpecFrame     - pushes into a configuration with other sections       *)
(*   SpecFields    - starts and stops among several records                *)
(*   SpecAssign    - assignments to CaddyServer fields, rebuilt objects    *)
(*   SpecPushRace  - create_caddy_server served by two threads             *)
(* A handler is one atomic action, except in the race                      *)
(* specifications, where it is split at its reads and writes of shared     *)
(* state; `last` records what the last call                                *)
(* returned and which external calls it issued.  Whether the engine is     *)
(* reachable is drawn per call: "up", "down" (connection refused) or       *)
(* "reject" (POST /load answers non-200).  Every table operation opens its *)
(* own connection; lock contention between connections is not modelled.    *)
(***************************************************************************)
EXTENDS Integers, Sequences, FiniteSets, TLC

VARIABLES
    hashSeed,          \* per-process key of Python's str hash (PYTHONHASHSEED unset)
    codec,             \* a route taken through ConfigCodec: [phase, route, block, decoded]
    caddyCfg,          \* the engine's config: [other, servers]
    caddyDb,           \* table caddy_servers: set of rows
    nextRouteId,       \* AUTOINCREMENT counter of caddy_servers
    procs,             \* OS process table: the live socat processes [pid, pgid, port]
    nextPid,           \* next PID the OS hands out
    proxyDb,           \* table proxy_processes (app.py): set of rows
    nextProxyId,       \* AUTOINCREMENT counter of proxy_processes
    active_processes,  \* app.py: in-memory map proxy id -> handle (pid)
    socatDb,           \* table socat_relays (socat.py): set of rows
    nextRelayId,       \* AUTOINCREMENT counter of socat_relays
    reqs,              \* calls in progress, one per thread: how far each has got
    last               \* observation of the last call

routeVars == <<hashSeed, caddyCfg, caddyDb, nextRouteId>>
relayVars == <<procs, nextPid, proxyDb, nextProxyId, active_processes, socatDb, nextRelayId,
               reqs>>
vars == <<hashSeed, codec, caddyCfg, caddyDb, nextRouteId,
          procs, nextPid, proxyDb, nextProxyId, active_processes, socatDb, nextRelayId,
          reqs, last>>

None == "None"

(***************************************************************************)
(* Bounds of the model                                                     *)
(***************************************************************************)
MaxRouteId == 2      \* at most this many rows are ever inserted in caddy_servers
MaxSeed == 1         \* hash seeds 0..MaxSeed
MaxPid == 3          \* PIDs 1..MaxPid are handed out
MaxProxyId == 2      \* at most this many rows are ever inserted in proxy_processes
MaxRelayId == 2      \* at most this many rows are ever inserted in socat_relays

Seeds == 0..MaxSeed
Hostnames == {"a.example", "b.example"}
RoutePorts == {80, 8443}
Upstreams == {"10.0.0.5:8080", "10.0.0.6:8080"}
TlsPools == {None, "/etc/ca.pem"}
\* Optional[List[str]]: Python's None, or a list
NoList == [none |-> TRUE, items |-> <<>>]
PyList(items) == [none |-> FALSE, items |-> items]
ProxyLists == {NoList, PyList(<<>>), PyList(<<"10.0.0.0/8">>)}
\* Optional[int]: Python's None
NoPort == -1

(***************************************************************************)
(* Identity derivation: caddy.py 45-46                                     *)
(*   server_hash = str(abs(hash((self.hostname, self.port))))[:8]          *)
(* hash() of a str is keyed by a per-process random seed; hash() of a      *)
(* small int is the int; the tuple hash mixes the lanes.  The 64-bit       *)
(* arithmetic is reduced to 30 bits.                                       *)
(***************************************************************************)
NameWidth == 8
HashMod == 2 ^ 30
LaneMod == 2 ^ 16

HostCode(h) == IF h = "a.example" THEN 24929 ELSE IF h = "b.example" THEN 25185 ELSE 0

\* hash(str): keyed by the process's seed
StrHash(seed, s) == (HostCode(s) * 31 + seed * 7919 + 17) % LaneMod

\* hash(int) for a small non-negative int
IntHash(n) == n

\* hash(tuple of two lanes), signed
TupleHash(a, b) ==
    LET u == (((a * 31 + b) % LaneMod) * 30011 + 7) % HashMod
    IN  IF u >= HashMod \div 2 THEN u - HashMod ELSE u

Abs(n) == IF n < 0 THEN -n ELSE n

RECURSIVE NumDigits(_)
NumDigits(n) == IF n < 10 THEN 1 ELSE 1 + NumDigits(n \div 10)

\* str(n)[:w] read back as a number: the first w decimal digits of n
RECURSIVE FirstDigits(_, _)
FirstDigits(n, w) == IF NumDigits(n) <= w THEN n ELSE FirstDigits(n \div 10, w)

\* The name "srv<digits>" is represented by its digits.
DeriveName(seed, hostname, port) ==
    FirstDigits(Abs(TupleHash(StrHash(seed, hostname), IntHash(port))), NameWidth)

(***************************************************************************)
(* Formatting and parsing of the listen address: caddy.py 92, 526-528      *)
(***************************************************************************)
DigitChars == <<"0", "1", "2", "3", "4", "5", "6", "7", "8", "9">>

IsDigit(c) == \E i \in 1..10 : DigitChars[i] = c

DigitVal(c) == (CHOOSE i \in 1..10 : DigitChars[i] = c) - 1

\* str(n) as a sequence of characters
RECURSIVE IntToStr(_)
IntToStr(n) ==
    IF n < 10 THEN <<DigitChars[n + 1]>>
    ELSE IntToStr(n \div 10) \o <<DigitChars[(n % 10) + 1]>>

\* f":{port}"
ListenAddr(port) == <<":">> \o IntToStr(port)

\* the longest run of digits of s starting at position i
RECURSIVE DigitRun(_, _)
DigitRun(s, i) ==
    IF i > Len(s) \/ ~IsDigit(s[i]) THEN <<>>
    ELSE <<s[i]>> \o DigitRun(s, i + 1)

\* int(digits)
RECURSIVE StrToInt(_)
StrToInt(d) ==
    IF Len(d) = 0 THEN 0
    ELSE StrToInt(SubSeq(d, 1, Len(d) - 1)) * 10 + DigitVal(d[Len(d)])

\* re.search(r":(\d+)", s): the port, or NoPort when nothing matches
ParseListen(s) ==
    LET hits == {i \in 1..Len(s) : s[i] = ":" /\ i < Len(s) /\ IsDigit(s[i + 1])}
    IN  IF hits = {} THEN NoPort
        ELSE LET i == CHOOSE j \in hits : \A k \in hits : j <= k
             IN  StrToInt(DigitRun(s, i + 1))

(***************************************************************************)
(* Python helpers on dicts and lists                                       *)
(***************************************************************************)
Has(d, k) == k \in DOMAIN d

\* d.get(k, default)
Get(d, k, default) == IF k \in DOMAIN d THEN d[k] ELSE default

\* truthiness of an optional string and of an optional list
Truthy(v) == v # None /\ v # ""

TruthyList(l) == ~l.none /\ Len(l.items) > 0

(***************************************************************************)
(* ConfigCodec.encode: CaddyServer._build_config, caddy.py 50-96           *)
(* A route is [name, hostname, port, upstream_url, tls_trust_pool,         *)
(* trusted_proxies]; the result is the server block stored under its name. *)
(***************************************************************************)
ReverseProxy(r) ==
    LET HostHeader ==
            [request |-> [set |-> [Host |-> <<"{http.reverse_proxy.upstream.hostport}">>]]]
        Transport(pool) ==
            [protocol |-> "http",
             tls |-> [ca |-> [pem_files |-> <<pool>>, provider |-> "file"]]]
        base == [handler |-> "reverse_proxy", headers |-> HostHeader,
                 upstreams |-> <<[dial |-> r.upstream_url]>>]
        withTls == IF Truthy(r.tls_trust_pool)
                   THEN [handler |-> base.handler, headers |-> base.headers,
                         upstreams |-> base.upstreams,
                         transport |-> Transport(r.tls_trust_pool)]
                   ELSE base
    IN  IF TruthyList(r.trusted_proxies)
        THEN withTls @@ [trusted_proxies |-> r.trusted_proxies.items]
        ELSE withTls

build_config(r) ==
    LET subroute == [handler |-> "subroute", routes |-> <<[handle |-> <<ReverseProxy(r)>>]>>]
        route == [match |-> <<[host |-> <<r.hostname>>]>>, handle |-> <<subroute>>,
                  terminal |-> TRUE]
    IN  [listen |-> <<ListenAddr(r.port)>>, routes |-> <<route>>]

(***************************************************************************)
(* ConfigCodec.decode: load_caddy_server_to_object, caddy.py 523-586       *)
(***************************************************************************)
\* the reverse_proxy handlers of a handle list of a sub-route, in order
RECURSIVE ProxiesOfHandle(_)
ProxiesOfHandle(hs) ==
    IF Len(hs) = 0 THEN <<>>
    ELSE (IF Get(Head(hs), "handler", None) = "reverse_proxy" THEN <<Head(hs)>> ELSE <<>>)
         \o ProxiesOfHandle(Tail(hs))

RECURSIVE ProxiesOfSubroutes(_)
ProxiesOfSubroutes(srs) ==
    IF Len(srs) = 0 THEN <<>>
    ELSE ProxiesOfHandle(Get(Head(srs), "handle", <<>>)) \o ProxiesOfSubroutes(Tail(srs))

RECURSIVE ProxiesOfHandlers(_)
ProxiesOfHandlers(hs) ==
    IF Len(hs) = 0 THEN <<>>
    ELSE (IF Get(Head(hs), "handler", None) = "subroute"
          THEN ProxiesOfSubroutes(Get(Head(hs), "routes", <<>>)) ELSE <<>>)
         \o ProxiesOfHandlers(Tail(hs))

RECURSIVE ProxiesOfRoutes(_)
ProxiesOfRoutes(rs) ==
    IF Len(rs) = 0 THEN <<>>
    ELSE ProxiesOfHandlers(Get(Head(rs), "handle", <<>>)) \o ProxiesOfRoutes(Tail(rs))

\* hostname: the first host of the first matcher of the last route that has one
DecodeHostname(routes) ==
    LET ok == {i \in 1..Len(routes) :
                 /\ Has(routes[i], "match")
                 /\ Len(routes[i].match) > 0
                 /\ Len(Get(routes[i].match[1], "host", <<>>)) > 0}
    IN  IF ok = {} THEN None
        ELSE routes[CHOOSE i \in ok : \A j \in ok : j <= i].match[1].host[1]

NoObject == [name |-> -1]

\* The decoded fields, or NoObject when hostname, port or upstream is missing
\* (ValueError "Incomplete data", caddy.py 569-573).  port 0 is falsy.
DecodeBlock(server_name, cfg) ==
    LET routes == Get(cfg, "routes", <<>>)
        ps == ProxiesOfRoutes(routes)
        hostname == DecodeHostname(routes)
        port == IF Has(cfg, "listen") /\ Len(cfg.listen) > 0
                THEN ParseListen(cfg.listen[1]) ELSE NoPort
        \* upstream_url: the dial of the first upstream of the last handler
        \* that has upstreams
        ups == {i \in 1..Len(ps) : Len(Get(ps[i], "upstreams", <<>>)) > 0}
        upstream == IF ups = {} THEN None
                    ELSE Get(ps[CHOOSE i \in ups : \A j \in ups : j <= i].upstreams[1],
                             "dial", None)
        \* tls_trust_pool: sh.get("tls").get("cert_file") of the last handler
        \* with a "tls" key
        tlss == {i \in 1..Len(ps) : Has(ps[i], "tls")}
        tls == IF tlss = {} THEN None
               ELSE Get(ps[CHOOSE i \in tlss : \A j \in tlss : j <= i].tls,
                        "cert_file", None)
        \* trusted_proxies: sh.get("trusted_proxies") of the last handler
        trusted == IF Len(ps) = 0 \/ ~Has(ps[Len(ps)], "trusted_proxies") THEN NoList
                   ELSE PyList(ps[Len(ps)].trusted_proxies)
    IN  IF ~Truthy(hostname) \/ port = NoPort \/ port = 0 \/ ~Truthy(upstream) THEN NoObject
        ELSE [name |-> server_name, hostname |-> hostname, port |-> port,
              upstream_url |-> upstream, tls_trust_pool |-> tls,
              trusted_proxies |-> trusted]

(***************************************************************************)
(* CaddyServer objects: caddy.py 29-48, 110-115                            *)
(* server_config is rebuilt whenever a configuration field is assigned.    *)
(***************************************************************************)
WithConfig(f) ==
    [name |-> f.name, hostname |-> f.hostname, port |-> f.port,
     upstream_url |-> f.upstream_url, tls_trust_pool |-> f.tls_trust_pool,
     trusted_proxies |-> f.trusted_proxies,
     server_config |-> [key |-> f.name, block |-> build_config(f)]]

\* CaddyServer(hostname, port, upstream_url, tls_trust_pool, trusted_proxies)
CaddyServer(seed, hostname, port, upstream_url, tls_trust_pool, trusted_proxies) ==
    WithConfig([name |-> DeriveName(seed, hostname, port), hostname |-> hostname,
                port |-> port, upstream_url |-> upstream_url,
                tls_trust_pool |-> tls_trust_pool, trusted_proxies |-> trusted_proxies])

\* an assignment that stores the value and nothing else
SetAttrStale(o, field, value) == [o EXCEPT ![field] = value]

\* CaddyServer.__setattr__ on an initialized object (caddy.py 110-115): the
\* assignment of a configuration attribute rebuilds server_config
SetAttr(o, field, value) ==
    LET o1 == [o EXCEPT ![field] = value]
    IN  IF field \in {"name", "hostname", "port", "upstream_url", "tls_trust_pool",
                      "trusted_proxies"}
        THEN [o1 EXCEPT !.server_config = [key |-> o1.name, block |-> build_config(o1)]]
        ELSE o1

\* server.name = value
SetName(o, value) == SetAttr(o, "name", value)

\* a decoder that fills in what it cannot recover instead of raising
LoadGuessing(seed, server_name, server_cfg) ==
    SetName(CaddyServer(seed, "a.example", 80, "10.0.0.5:8080", None, NoList), server_name)

\* load_caddy_server_to_object applied to the block the engine returned:
\* a CaddyServer named server_name, or NoObject for the ValueError
load_caddy_server_to_object(seed, server_name, server_cfg) ==
    LET f == DecodeBlock(server_name, server_cfg)
    IN  IF f = NoObject THEN NoObject
        ELSE SetName(CaddyServer(seed, f.hostname, f.port, f.upstream_url,
                                 f.tls_trust_pool, f.trusted_proxies),
                     server_name)

(***************************************************************************)
(* Table caddy_servers: caddy.py 350-496                                   *)
(***************************************************************************)
\* json.dumps(server.trusted_proxies) if server.trusted_proxies else None
DumpProxies(l) == IF TruthyList(l) THEN [null |-> FALSE, json |-> l.items] ELSE [null |-> TRUE, json |-> <<>>]

RowsNamed(db, name) == {row \in db : row.name = name}

\* db_get_caddy_server: the row as a dict, or NoObject; trusted_proxies is
\* json.loads(col) if col else None
db_get_caddy_server(db, name) ==
    IF RowsNamed(db, name) = {} THEN NoObject
    ELSE LET row == CHOOSE x \in RowsNamed(db, name) : TRUE
         IN  [row EXCEPT !.trusted_proxies = IF @.null THEN NoList ELSE PyList(@.json)]

\* db_insert_caddy_server: the table with the new row (status DEFAULT stopped).
\* The caller checks UNIQUE(name) with RowsNamed.
db_insert_caddy_server(db, id, o) ==
    db \cup {[id |-> id, name |-> o.name, hostname |-> o.hostname, port |-> o.port,
              upstream_url |-> o.upstream_url, tls_trust_pool |-> o.tls_trust_pool,
              trusted_proxies |-> DumpProxies(o.trusted_proxies), status |-> "stopped",
              create_time |-> "CURRENT_TIMESTAMP"]}

\* db_update_caddy_server: status is what the status getter returns
db_update_caddy_server(db, o, status) ==
    {IF row.name = o.name
     THEN [row EXCEPT !.hostname = o.hostname, !.port = o.port,
                      !.upstream_url = o.upstream_url,
                      !.tls_trust_pool = o.tls_trust_pool,
                      !.trusted_proxies = DumpProxies(o.trusted_proxies),
                      !.status = status]
     ELSE row : row \in db}

db_delete_caddy_server(db, name) == db \ RowsNamed(db, name)

\* db_build_caddy_server: a CaddyServer that keeps the persisted name
db_build_caddy_server(seed, db, name) ==
    LET record == db_get_caddy_server(db, name)
    IN  IF record = NoObject THEN NoObject
        ELSE SetName(CaddyServer(seed, record.hostname, record.port, record.upstream_url,
                                 record.tls_trust_pool, record.trusted_proxies),
                     record.name)

(***************************************************************************)
(* The engine's admin API as caddy.py uses it: caddy.py 117-197            *)
(***************************************************************************)
NoServers == [n \in {} |-> 0]

Live(cfg, name) == name \in DOMAIN cfg.servers

\* CaddyServer.status getter (caddy.py 98-100)
ProbeStatus(cfg, name) == IF Live(cfg, name) THEN "running" ELSE "stopped"

\* what a rejected assignment to status leaves in place of the object
StatusRejected == [error |-> "ValueError"]

\* a setter without validation
SetStatusUnchecked(o, value) == [attribute |-> value] @@ o

\* server.status = value (caddy.py 102-108): validated, stored in _attribute
SetStatus(o, value) ==
    IF value \notin {"stopped", "running"} THEN StatusRejected
    ELSE [attribute |-> value] @@ o

\* a getter that returns what the setter stored
GetStored(cfg, o) == IF "attribute" \in DOMAIN o THEN o.attribute ELSE "stopped"

\* server.status (caddy.py 98-100): a probe of the engine for the object's name
GetStatus(cfg, o) == ProbeStatus(cfg, o.name)

\* a DELETE the engine acknowledges without removing anything
KeepServer(cfg, name) == cfg

RemoveServer(cfg, name) ==
    [cfg EXCEPT !.servers = [n \in (DOMAIN cfg.servers) \ {name} |-> cfg.servers[n]]]

\* a push that always starts from the blank initial config
MergedFresh(cfg, o) ==
    [other |-> FALSE, servers |-> (o.server_config.key :> o.server_config.block)]

\* the config create_caddy_server posts to /load (caddy.py 205-225)
MergedConfig(cfg, o) ==
    LET current == IF DOMAIN cfg.servers = {}
                   THEN [other |-> FALSE, servers |-> NoServers]
                   ELSE cfg
    IN  [current EXCEPT !.servers = (o.server_config.key :> o.server_config.block) @@ @]

\* json.dumps accepts dicts, lists, strings, numbers and None (caddy.py 278)
CanSerialize(kind) == kind \in {"dict", "list", "str", "int", "None"}

(***************************************************************************)
(* Observation of the last call                                            *)
(*   mode: how the engine answered during the call                        *)
(*   outcome: "ok" (returned normally), "false" (returned False),          *)
(*            "raise" (an exception reached the caller)                    *)
(*   pushes / deletes: POST /load and DELETE requests the call issued      *)
(*   spawns / signals: processes spawned and signals sent by the call      *)
(*   ret: the (key, status) pairs of the records the call returned         *)
(***************************************************************************)
Obs(op, key, outcome) ==
    [op |-> op, key |-> key, mode |-> "up", outcome |-> outcome, pushes |-> 0,
     deletes |-> 0, spawns |-> 0, signals |-> 0, ret |-> {}]

Modes == {"up", "down", "reject"}

Idle == Obs("env", 0, "ok")

\* what callers create in the route specification: two routes for one
\* (hostname, port) that differ in the upstream, and one with every option set
RouteInputs ==
    {[hostname |-> "a.example", port |-> 80, upstream_url |-> "10.0.0.5:8080",
      tls_trust_pool |-> None, trusted_proxies |-> NoList],
     [hostname |-> "a.example", port |-> 80, upstream_url |-> "10.0.0.6:8080",
      tls_trust_pool |-> None, trusted_proxies |-> NoList],
     [hostname |-> "b.example", port |-> 8443, upstream_url |-> "10.0.0.5:8080",
      tls_trust_pool |-> "/etc/ca.pem", trusted_proxies |-> PyList(<<"10.0.0.0/8">>)]}

\* names a caller may pass: those of the routes above, and one derived by an
\* instance with another seed
ForeignName == DeriveName(MaxSeed + 1, "a.example", 80)
RouteNames == {DeriveName(0, in.hostname, in.port) : in \in RouteInputs} \cup {ForeignName}

\* blocks another writer may publish out-of-band: one complete, the others
\* without an upstream, a hostname or a port
ForeignBlocks ==
    {build_config([name |-> ForeignName, hostname |-> "b.example", port |-> 8443,
                   upstream_url |-> "10.0.0.6:8080", tls_trust_pool |-> None,
                   trusted_proxies |-> NoList]),
     [listen |-> <<ListenAddr(80)>>,
      routes |-> <<[match |-> <<[host |-> <<"a.example">>]>>,
                    handle |-> <<[handler |-> "static_response"]>>]>>],
     \* no host matcher; no listen address
     [listen |-> <<ListenAddr(80)>>,
      routes |-> <<[handle |-> <<[handler |-> "subroute",
                                  routes |-> <<[handle |-> <<ReverseProxy(
                                      [upstream_url |-> "10.0.0.6:8080",
                                       tls_trust_pool |-> None,
                                       trusted_proxies |-> NoList])>>]>>]>>]>>],
     [listen |-> <<>>,
      routes |-> <<[match |-> <<[host |-> <<"a.example">>]>>,
                    handle |-> <<[handler |-> "subroute",
                                  routes |-> <<[handle |-> <<ReverseProxy(
                                      [upstream_url |-> "10.0.0.6:8080",
                                       tls_trust_pool |-> None,
                                       trusted_proxies |-> NoList])>>]>>]>>]>>]}

(***************************************************************************)
(* create_caddy_server: caddy.py 199-244                                   *)
(* The outcome of the push part, given the object (or NoObject), the       *)
(* engine's mode and config: [resp, pushes, cfg].                          *)
(***************************************************************************)
PushConfig(o, mode, cfg) ==
    IF mode = "down" THEN [resp |-> "false", pushes |-> 0, cfg |-> cfg]
    ELSE IF o = NoObject THEN [resp |-> "false", pushes |-> 0, cfg |-> cfg]
    ELSE IF mode = "reject" THEN [resp |-> "false", pushes |-> 1, cfg |-> cfg]
    ELSE [resp |-> "ok", pushes |-> 1, cfg |-> MergedConfig(cfg, o)]

\* create_caddy_server(CaddyServer(...)) with start_server = False
CreateRoute(mode, in) ==
    LET o == CaddyServer(hashSeed, in.hostname, in.port, in.upstream_url,
                         in.tls_trust_pool, in.trusted_proxies)
        push == PushConfig(o, mode, caddyCfg)
        dup == RowsNamed(caddyDb, o.name) # {}
        inserted == push.resp = "ok" /\ ~dup
    IN  /\ inserted => nextRouteId <= MaxRouteId
        /\ caddyCfg' = push.cfg
        /\ caddyDb' = IF inserted THEN db_insert_caddy_server(caddyDb, nextRouteId, o)
                      ELSE caddyDb
        /\ nextRouteId' = IF inserted THEN nextRouteId + 1 ELSE nextRouteId
        /\ last' = [Obs("create", o.name, IF inserted THEN "ok" ELSE "false")
                      EXCEPT !.pushes = push.pushes, !.mode = mode]
        /\ UNCHANGED <<hashSeed, codec>>
        /\ UNCHANGED relayVars

(***************************************************************************)
(* start_caddy_server: caddy.py 264-301                                    *)
(***************************************************************************)
StartRoute(mode, server_name) ==
    LET probed == mode # "down" /\ Live(caddyCfg, server_name)
        db_running_server == db_build_caddy_server(hashSeed, caddyDb, server_name)
        \* lines 274-276: resync of the persisted status
        resync == probed /\ db_running_server # NoObject
        db1 == IF resync
               THEN db_update_caddy_server(
                        caddyDb, db_running_server,
                        GetStatus(caddyCfg, SetStatus(db_running_server, "running")))
               ELSE caddyDb
        \* line 278: return json.dumps(db_running_server)
        returned == resync /\ CanSerialize("CaddyServer")
        \* lines 283-285
        server_to_start == db_build_caddy_server(hashSeed, db1, server_name)
        push == PushConfig(server_to_start, mode, caddyCfg)
        obs(outcome) == [Obs("start", server_name, outcome)
                           EXCEPT !.pushes = push.pushes, !.mode = mode]
    IN  /\ server_name \in RouteNames
        /\ IF returned
           THEN /\ caddyCfg' = caddyCfg
                /\ caddyDb' = db1
                /\ last' = [Obs("start", server_name, "ok") EXCEPT !.mode = mode]
           ELSE IF push.resp = "false"
           THEN \* False.raise_for_status(): AttributeError
                /\ caddyCfg' = push.cfg
                /\ caddyDb' = db1
                /\ last' = obs("raise")
           ELSE /\ caddyCfg' = push.cfg
                /\ caddyDb' = db_update_caddy_server(
                                  db1, server_to_start,
                                  GetStatus(push.cfg, SetStatus(server_to_start, "running")))
                /\ last' = obs("ok")
        /\ UNCHANGED <<hashSeed, codec, nextRouteId>>
        /\ UNCHANGED relayVars

(***************************************************************************)
(* stop_caddy_server: caddy.py 303-348                                     *)
(***************************************************************************)
StopRoute(mode, server_name) ==
    LET known == db_get_caddy_server(caddyDb, server_name) # NoObject
        decoded == IF Live(caddyCfg, server_name)
                   THEN load_caddy_server_to_object(hashSeed, server_name,
                                                    caddyCfg.servers[server_name])
                   ELSE NoObject
        \* lines 319-325: an unrecorded live server is decoded and inserted
        db1 == IF known THEN caddyDb
               ELSE db_insert_caddy_server(caddyDb, nextRouteId, decoded)
        cfg1 == RemoveServer(caddyCfg, server_name)
        \* lines 342-344
        server_to_stop == db_build_caddy_server(hashSeed, db1, server_name)
        obs(outcome, deletes) == [Obs("stop", server_name, outcome)
                                    EXCEPT !.deletes = deletes, !.mode = mode]
    IN  /\ server_name \in RouteNames
        /\ IF mode # "down" /\ ~Live(caddyCfg, server_name)
           THEN \* lines 312-314: already stopped
                /\ UNCHANGED <<caddyCfg, caddyDb, nextRouteId>>
                /\ last' = obs("ok", 0)
           ELSE IF mode = "down"
           THEN \* the probe's error is logged; the next request raises
                /\ UNCHANGED <<caddyCfg, caddyDb, nextRouteId>>
                /\ last' = obs("raise", IF known THEN 1 ELSE 0)
           ELSE IF ~known /\ decoded = NoObject
           THEN \* ValueError from load_caddy_server_to_object
                /\ UNCHANGED <<caddyCfg, caddyDb, nextRouteId>>
                /\ last' = obs("raise", 0)
           ELSE /\ ~known => nextRouteId <= MaxRouteId
                /\ caddyCfg' = cfg1
                /\ caddyDb' = db_update_caddy_server(
                                  db1, server_to_stop,
                                  GetStatus(cfg1, SetStatus(server_to_stop, "stopped")))
                /\ nextRouteId' = IF known THEN nextRouteId ELSE nextRouteId + 1
                /\ last' = obs("ok", 1)
        /\ UNCHANGED <<hashSeed, codec>>
        /\ UNCHANGED relayVars

(***************************************************************************)
(* Reads of the table and direct deletes: caddy.py 173-197, 407-471        *)
(***************************************************************************)
\* db_get_caddy_server(name) called by a client of the module
DbGetRoute(name) ==
    /\ name \in RouteNames
    /\ last' = [Obs("db_get", name, "ok")
                  EXCEPT !.ret = {<<row.name, row.status>> : row \in RowsNamed(caddyDb, name)}]
    /\ UNCHANGED <<routeVars, codec, reqs>>
    /\ UNCHANGED relayVars

\* db_list_caddy_servers()
DbListRoutes ==
    /\ last' = [Obs("db_list", 0, "ok")
                  EXCEPT !.ret = {<<row.name, row.status>> : row \in caddyDb}]
    /\ UNCHANGED <<routeVars, codec, reqs>>
    /\ UNCHANGED relayVars

\* db_delete_caddy_server(name)
DbDeleteRoute(name) ==
    /\ RowsNamed(caddyDb, name) # {}
    /\ caddyDb' = db_delete_caddy_server(caddyDb, name)
    /\ last' = Obs("db_delete", name, "ok")
    /\ UNCHANGED <<hashSeed, codec, caddyCfg, nextRouteId>>
    /\ UNCHANGED relayVars

\* delete_caddy_server(name): DELETE of the server path; an unknown path or an
\* unreachable engine raises
DeleteServer(mode, name) ==
    /\ name \in RouteNames
    /\ IF mode # "down" /\ Live(caddyCfg, name)
       THEN /\ caddyCfg' = RemoveServer(caddyCfg, name)
            /\ last' = [Obs("delete", name, "ok") EXCEPT !.deletes = 1, !.mode = mode]
       ELSE /\ caddyCfg' = caddyCfg
            /\ last' = [Obs("delete", name, "raise") EXCEPT !.deletes = 1, !.mode = mode]
    /\ UNCHANGED <<hashSeed, codec, caddyDb, nextRouteId>>
    /\ UNCHANGED relayVars

(***************************************************************************)
(* The environment of caddy.py                                             *)
(***************************************************************************)
\* the managing process is restarted: Python draws a new hash seed
Restart(seed) ==
    /\ seed \in Seeds
    /\ hashSeed' = seed
    /\ last' = Idle
    /\ UNCHANGED <<codec, caddyCfg, caddyDb, nextRouteId>>
    /\ UNCHANGED relayVars

\* a server block is removed out-of-band
ExternalRemove(name) ==
    /\ Live(caddyCfg, name)
    /\ caddyCfg' = RemoveServer(caddyCfg, name)
    /\ last' = Idle
    /\ UNCHANGED <<hashSeed, codec, caddyDb, nextRouteId>>
    /\ UNCHANGED relayVars

\* another writer publishes a server block out-of-band
ExternalPut(name, block) ==
    /\ name = ForeignName
    /\ block \in ForeignBlocks
    /\ ~Live(caddyCfg, name)
    /\ caddyCfg' = [caddyCfg EXCEPT !.servers = (name :> block) @@ @]
    /\ last' = Idle
    /\ UNCHANGED <<hashSeed, codec, caddyDb, nextRouteId>>
    /\ UNCHANGED relayVars

\* another writer adds or removes unrelated sections of the config
ExternalOther ==
    /\ caddyCfg' = [caddyCfg EXCEPT !.other = ~@]
    /\ last' = Idle
    /\ UNCHANGED <<hashSeed, codec, caddyDb, nextRouteId>>
    /\ UNCHANGED relayVars

(***************************************************************************)
(* Initial state and the specification of caddy.py                         *)
(***************************************************************************)
NoCodec == [phase |-> "none"]

\* the threads that serve calls step by step, and a thread serving none
Threads == {1, 2}
NoReq == [pc |-> "idle", op |-> "none", key |-> 0, port |-> 0, pid |-> 0]


InitRest ==
    /\ caddyCfg = [other |-> FALSE, servers |-> NoServers]
    /\ caddyDb = {}
    /\ nextRouteId = 1
    /\ procs = {}
    /\ nextPid = 1
    /\ proxyDb = {}
    /\ nextProxyId = 1
    /\ active_processes = [i \in {} |-> 0]
    /\ socatDb = {}
    /\ nextRelayId = 1
    /\ reqs = [t \in Threads |-> NoReq]
    /\ last = Idle

InitRoute ==
    /\ hashSeed = 0
    /\ codec = NoCodec
    /\ InitRest

\* caddy.py with a caller and out-of-band removals of server blocks
NextRoute ==
    \/ \E m \in Modes, in \in RouteInputs : CreateRoute(m, in)
    \/ \E m \in Modes, n \in RouteNames : StartRoute(m, n)
    \/ \E m \in Modes, n \in RouteNames : StopRoute(m, n)
    \/ \E n \in RouteNames : DbGetRoute(n)
    \/ DbListRoutes
    \/ \E n \in RouteNames : DbDeleteRoute(n)
    \/ \E m \in Modes, n \in RouteNames : DeleteServer(m, n)
    \/ \E n \in RouteNames : ExternalRemove(n)

SpecRoute == InitRoute /\ [][NextRoute]_vars

(***************************************************************************)
(* Identity derivation and ConfigCodec on single routes                    *)
(***************************************************************************)
\* CaddyServer(...): __post_init__ derives the name and builds server_config
Construct(hostname, port, upstream_url, tls_trust_pool, trusted_proxies) ==
    /\ codec' = [phase |-> "built",
                 route |-> CaddyServer(hashSeed, hostname, port, upstream_url,
                                       tls_trust_pool, trusted_proxies)]
    /\ UNCHANGED <<routeVars, last>>
    /\ UNCHANGED relayVars

\* load_caddy_server_to_object(name) on the block the route was encoded to
Decode ==
    /\ codec.phase = "built"
    /\ codec' = [phase |-> "decoded", route |-> codec.route,
                 decoded |-> load_caddy_server_to_object(
                                 hashSeed, codec.route.server_config.key,
                                 codec.route.server_config.block)]
    /\ UNCHANGED <<routeVars, last>>
    /\ UNCHANGED relayVars

InitCodec ==
    /\ hashSeed \in Seeds
    /\ codec = NoCodec
    /\ InitRest

NextCodec ==
    \/ \E h \in Hostnames, p \in RoutePorts, u \in Upstreams, t \in TlsPools,
          l \in ProxyLists : Construct(h, p, u, t, l)
    \/ Decode
    \/ \E s \in Seeds : Restart(s)

SpecCodec == InitCodec /\ [][NextCodec]_vars

(***************************************************************************)
(* The OS process table and the forwarder: socat.py 27-63, 72-102          *)
(***************************************************************************)
ListeningPorts == {9000, 9001}
NoPid == 0

Alive(pid) == \E q \in procs : q.pid = pid

\* subprocess.Popen(cmd, preexec_fn=os.setsid): a new process leading its own group
Spawn(pid, port) == [pid |-> pid, pgid |-> pid, port |-> port]

\* get_socat_processes(): port -> lowest PID among the processes whose command
\* line names the port
get_socat_processes(ps) ==
    [port \in {q.port : q \in ps} \ {NoPort} |->
        CHOOSE pid \in {q.pid : q \in {x \in ps : x.port = port}} :
            \A q \in ps : q.port = port => pid <= q.pid]

\* the loop of get_socat_processes (socat.py 44-61) over the lines of
\* `pgrep -a socat`, each a [pid, port], port = NoPort when the command names
\* no tcp-listen address
RECURSIVE ScanKeepFirst(_, _)
ScanKeepFirst(lines, port_to_pid) ==
    IF Len(lines) = 0 THEN port_to_pid
    ELSE LET line == Head(lines)
         IN  IF line.port = NoPort \/ line.port \in DOMAIN port_to_pid
             THEN ScanKeepFirst(Tail(lines), port_to_pid)
             ELSE ScanKeepFirst(Tail(lines), (line.port :> line.pid) @@ port_to_pid)

RECURSIVE ScanLines(_, _)
ScanLines(lines, port_to_pid) ==
    IF Len(lines) = 0 THEN port_to_pid
    ELSE LET line == Head(lines)
         IN  IF line.port = NoPort
             THEN ScanLines(Tail(lines), port_to_pid)
             ELSE IF line.port \notin DOMAIN port_to_pid \/ line.pid < port_to_pid[line.port]
             THEN ScanLines(Tail(lines), (line.port :> line.pid) @@ port_to_pid)
             ELSE ScanLines(Tail(lines), port_to_pid)

\* the lines of `pgrep -a socat` for a process table, listed in the given order
RECURSIVE PgrepLines(_, _, _)
PgrepLines(ps, order, i) ==
    IF i > Len(order) THEN <<>>
    ELSE (IF \E q \in ps : q.pid = order[i]
          THEN <<[pid |-> order[i], port |-> (CHOOSE q \in ps : q.pid = order[i]).port]>>
          ELSE <<>>)
         \o PgrepLines(ps, order, i + 1)

\* SocatRelay.pid
RelayPid(ps, port) ==
    IF port \in DOMAIN get_socat_processes(ps) THEN get_socat_processes(ps)[port]
    ELSE NoPid

\* SocatRelay.status getter
RelayStatus(ps, port) == IF RelayPid(ps, port) # NoPid THEN "running" ELSE "stopped"

\* relay.status = value (socat.py 132-138)
RelaySetStatus(relay, value) ==
    IF value \notin {"stopped", "running"} THEN StatusRejected
    ELSE [attribute |-> value] @@ relay

\* relay.status (socat.py 127-130)
RelayGetStatus(ps, relay) == RelayStatus(ps, relay.listening_port)

\* a signal that reaches the group's leader only
KillLeader(ps, pgid) == {q \in ps : q.pid # pgid}

\* os.killpg(pgid, sig) obeyed by every member of the group
KillGroup(ps, pgid) == {q \in ps : q.pgid # pgid}

PgidOf(ps, pid) == (CHOOSE q \in ps : q.pid = pid).pgid

(***************************************************************************)
(* Table proxy_processes: app.py 16-147                                    *)
(***************************************************************************)
NoTime == "NULL"

create_proxy_in_db(db, id, listening_port, target_host, target_port, process_id) ==
    db \cup {[id |-> id, listening_port |-> listening_port, target_host |-> target_host,
              target_port |-> target_port, process_id |-> process_id,
              start_time |-> "CURRENT_TIMESTAMP", stop_time |-> NoTime,
              status |-> "running"]}

ProxyRows(db, proxy_id) == {row \in db : row.id = proxy_id}

get_proxy_from_db(db, proxy_id) == CHOOSE row \in ProxyRows(db, proxy_id) : TRUE

\* an UPDATE without its WHERE clause
UpdateEveryProxy(db, proxy_id, process_id, status, stop_time) ==
    {[row EXCEPT !.process_id = process_id, !.status = status, !.stop_time = stop_time] :
       row \in db}

update_proxy_status_in_db(db, proxy_id, process_id, status, stop_time) ==
    {IF row.id = proxy_id
     THEN [row EXCEPT !.process_id = process_id, !.status = status,
                      !.stop_time = stop_time]
     ELSE row : row \in db}

delete_proxy_from_db(db, proxy_id) == db \ ProxyRows(db, proxy_id)

\* os.kill(process_id, 0)
check_process_status(ps, process_id) ==
    IF process_id = NoPid THEN "stopped"
    ELSE IF process_id \in {q.pid : q \in ps} THEN "running" ELSE "stopped"

proxy_config_exists(db, listening_port, target_host, target_port) ==
    \E row \in db : /\ row.listening_port = listening_port
                    /\ row.target_host = target_host
                    /\ row.target_port = target_port

(***************************************************************************)
(* RelaySupervisor as app.py imports it (start_socat_proxy,                *)
(* stop_socat_proxy): the process table after the call                     *)
(***************************************************************************)
\* start_socat_proxy: spawns the forwarder in its own process group
start_socat_proxy(ps, pid, listening_port) == ps \cup {Spawn(pid, listening_port)}

\* stop_socat_proxy(handle): graceful, then forced termination of the handle's
\* process group; an exited process is success
stop_socat_proxy(ps, pid) == IF pid \in {q.pid : q \in ps} THEN KillGroup(ps, PgidOf(ps, pid)) ELSE ps

HasHandle(proxy_id) == proxy_id \in DOMAIN active_processes

DropHandle(handles, proxy_id) == [i \in (DOMAIN handles) \ {proxy_id} |-> handles[i]]

(***************************************************************************)
(* The Flask handlers of app.py.  outcome is the HTTP status of the reply. *)
(* spawnOk: whether the forwarder binary can be launched during the call.  *)
(***************************************************************************)
\* POST /proxy: app.py 159-193
create_proxy(spawnOk, listening_port, target_host, target_port) ==
    IF proxy_config_exists(proxyDb, listening_port, target_host, target_port)
    THEN /\ last' = Obs("create_proxy", listening_port, "400")
         /\ UNCHANGED <<procs, nextPid, proxyDb, nextProxyId, active_processes>>
    ELSE IF ~spawnOk
    THEN /\ last' = Obs("create_proxy", listening_port, "500")
         /\ UNCHANGED <<procs, nextPid, proxyDb, nextProxyId, active_processes>>
    ELSE /\ nextPid <= MaxPid
         /\ nextProxyId <= MaxProxyId
         /\ procs' = start_socat_proxy(procs, nextPid, listening_port)
         /\ nextPid' = nextPid + 1
         /\ proxyDb' = create_proxy_in_db(proxyDb, nextProxyId, listening_port,
                                          target_host, target_port, nextPid)
         /\ nextProxyId' = nextProxyId + 1
         /\ active_processes' = (nextProxyId :> nextPid) @@ active_processes
         /\ last' = [Obs("create_proxy", listening_port, "201") EXCEPT !.spawns = 1]

CreateProxy(spawnOk, listening_port, target_host, target_port) ==
    /\ create_proxy(spawnOk, listening_port, target_host, target_port)
    /\ UNCHANGED <<routeVars, codec, reqs, socatDb, nextRelayId>>

\* GET /proxy: app.py 195-215
ListProxies ==
    /\ last' = [Obs("list_proxies", 0, "200")
                  EXCEPT !.ret = {<<row.id, check_process_status(procs, row.process_id)>> :
                                    row \in proxyDb}]
    /\ UNCHANGED <<routeVars, codec, reqs>>
    /\ UNCHANGED relayVars

\* GET /proxy/<id>: app.py 217-237
GetProxy(proxy_id) ==
    /\ IF ProxyRows(proxyDb, proxy_id) = {}
       THEN last' = Obs("get_proxy", proxy_id, "404")
       ELSE last' = [Obs("get_proxy", proxy_id, "200")
                       EXCEPT !.ret = {<<proxy_id,
                                         check_process_status(procs,
                                             get_proxy_from_db(proxyDb, proxy_id).process_id)>>}]
    /\ UNCHANGED <<routeVars, codec, reqs>>
    /\ UNCHANGED relayVars

\* DELETE /proxy/<id>: app.py 239-266
DeleteProxy(proxy_id) ==
    /\ IF ProxyRows(proxyDb, proxy_id) = {}
       THEN /\ last' = Obs("delete_proxy", proxy_id, "404")
            /\ UNCHANGED <<procs, proxyDb, active_processes>>
       ELSE LET proxy == get_proxy_from_db(proxyDb, proxy_id)
                stops == proxy.process_id # NoPid /\ HasHandle(proxy_id)
            IN  /\ procs' = IF stops THEN stop_socat_proxy(procs, active_processes[proxy_id])
                            ELSE procs
                /\ active_processes' = IF stops THEN DropHandle(active_processes, proxy_id)
                                       ELSE active_processes
                /\ proxyDb' = delete_proxy_from_db(proxyDb, proxy_id)
                /\ last' = [Obs("delete_proxy", proxy_id, "200")
                              EXCEPT !.signals = IF stops /\ Alive(active_processes[proxy_id])
                                                 THEN 1 ELSE 0]
    /\ UNCHANGED <<nextPid, nextProxyId, socatDb, nextRelayId>>
    /\ UNCHANGED <<routeVars, codec, reqs>>

\* PUT /proxy/<id>: app.py 268-296
StopProxy(proxy_id) ==
    /\ IF ProxyRows(proxyDb, proxy_id) = {}
       THEN /\ last' = Obs("stop_proxy", proxy_id, "404")
            /\ UNCHANGED <<procs, proxyDb, active_processes>>
       ELSE LET proxy == get_proxy_from_db(proxyDb, proxy_id)
                stops == proxy.process_id # NoPid /\ HasHandle(proxy_id)
            IN  /\ procs' = IF stops THEN stop_socat_proxy(procs, active_processes[proxy_id])
                            ELSE procs
                /\ active_processes' = IF proxy.process_id # NoPid
                                       THEN DropHandle(active_processes, proxy_id)
                                       ELSE active_processes
                /\ proxyDb' = update_proxy_status_in_db(proxyDb, proxy_id, NoPid, "stopped",
                                                        "CURRENT_TIMESTAMP")
                /\ last' = [Obs("stop_proxy", proxy_id, "200")
                              EXCEPT !.signals = IF stops /\ Alive(active_processes[proxy_id])
                                                 THEN 1 ELSE 0]
    /\ UNCHANGED <<nextPid, nextProxyId, socatDb, nextRelayId>>
    /\ UNCHANGED <<routeVars, codec, reqs>>

\* POST /proxy/<id>/start: app.py 298-327
start_proxy(spawnOk, proxy_id) ==
    IF ProxyRows(proxyDb, proxy_id) = {}
    THEN /\ last' = Obs("start_proxy", proxy_id, "404")
         /\ UNCHANGED <<procs, nextPid, proxyDb, active_processes>>
    ELSE IF ~spawnOk
    THEN /\ last' = Obs("start_proxy", proxy_id, "400")
         /\ UNCHANGED <<procs, nextPid, proxyDb, active_processes>>
    ELSE /\ nextPid <= MaxPid
         /\ procs' = start_socat_proxy(procs, nextPid,
                                       get_proxy_from_db(proxyDb, proxy_id).listening_port)
         /\ nextPid' = nextPid + 1
         /\ proxyDb' = update_proxy_status_in_db(proxyDb, proxy_id, nextPid, "running", NoTime)
         /\ active_processes' = (proxy_id :> nextPid) @@ active_processes
         /\ last' = [Obs("start_proxy", proxy_id, "200") EXCEPT !.spawns = 1]

StartProxy(spawnOk, proxy_id) ==
    /\ start_proxy(spawnOk, proxy_id)
    /\ UNCHANGED <<nextProxyId, socatDb, nextRelayId>>
    /\ UNCHANGED <<routeVars, codec, reqs>>

\* POST /backup: app.py 330-348
BackupProxies ==
    /\ last' = [Obs("backup_proxies", 0, "200")
                  EXCEPT !.ret = {<<row.id, row.status>> : row \in proxyDb}]
    /\ UNCHANGED <<routeVars, codec, reqs>>
    /\ UNCHANGED relayVars

\* the loop of restore_proxies (app.py 371-387) over the rest of the payload:
\* [db, nextId, code]
RECURSIVE RestoreLoop(_, _, _)
RestoreLoop(db, nextId, payload) ==
    IF Len(payload) = 0 THEN [db |-> db, nextId |-> nextId, code |-> "200"]
    ELSE LET c == Head(payload)
         IN  IF proxy_config_exists(db, c.listening_port, c.target_host, c.target_port)
             THEN [db |-> db, nextId |-> nextId, code |-> "400"]
             ELSE RestoreLoop(create_proxy_in_db(db, nextId, c.listening_port,
                                                 c.target_host, c.target_port, NoPid),
                              nextId + 1, Tail(payload))

\* POST /restore?mode=...: app.py 350-395
RestoreProxies(mode, backup_data) ==
    /\ mode \in {"append", "overwrite"}
    /\ IF Len(backup_data) = 0
       THEN /\ last' = Obs("restore_proxies", 0, "400")
            /\ UNCHANGED <<proxyDb, nextProxyId>>
       ELSE LET cleared == IF mode = "overwrite" THEN {} ELSE proxyDb
                done == RestoreLoop(cleared, nextProxyId, backup_data)
            IN  /\ done.nextId <= MaxProxyId + 1
                /\ proxyDb' = done.db
                /\ nextProxyId' = done.nextId
                /\ last' = Obs("restore_proxies", 0, done.code)
    /\ UNCHANGED <<procs, nextPid, active_processes, socatDb, nextRelayId>>
    /\ UNCHANGED <<routeVars, codec, reqs>>

(***************************************************************************)
(* The environment of app.py and socat.py                                  *)
(***************************************************************************)
\* the Flask process is restarted: the in-memory map starts empty
AppRestart ==
    /\ active_processes # <<>>
    /\ active_processes' = <<>>
    /\ last' = Idle
    /\ UNCHANGED <<procs, nextPid, proxyDb, nextProxyId, socatDb, nextRelayId>>
    /\ UNCHANGED <<routeVars, codec, reqs>>

\* a forwarder process exits or is killed from outside
ProcExit(pid) ==
    /\ Alive(pid)
    /\ procs' = {q \in procs : q.pid # pid}
    /\ last' = Idle
    /\ UNCHANGED <<nextPid, proxyDb, nextProxyId, active_processes, socatDb, nextRelayId>>
    /\ UNCHANGED <<routeVars, codec, reqs>>

\* a connection arrives: socat (fork) serves it in a child of the same group
\* and command line
ForkChild(pid) ==
    /\ Alive(pid)
    /\ nextPid <= MaxPid
    /\ LET parent == CHOOSE q \in procs : q.pid = pid
       IN  procs' = procs \cup {[pid |-> nextPid, pgid |-> parent.pgid, port |-> parent.port]}
    /\ nextPid' = nextPid + 1
    /\ last' = Idle
    /\ UNCHANGED <<proxyDb, nextProxyId, active_processes, socatDb, nextRelayId>>
    /\ UNCHANGED <<routeVars, codec, reqs>>

(***************************************************************************)
(* The specification of app.py                                             *)
(***************************************************************************)
MaxPayload == 2

ProxyConfigs ==
    [listening_port : ListeningPorts, target_host : {"10.0.0.5", "10.0.0.6"},
     target_port : {80}]

ProxyIds == 1..MaxProxyId

InitProxy ==
    /\ hashSeed = 0
    /\ codec = NoCodec
    /\ InitRest

NextProxy ==
    \/ \E ok \in BOOLEAN, c \in ProxyConfigs :
          CreateProxy(ok, c.listening_port, c.target_host, c.target_port)
    \/ ListProxies
    \/ \E i \in ProxyIds : GetProxy(i)
    \/ \E i \in ProxyIds : DeleteProxy(i)
    \/ \E i \in ProxyIds : StopProxy(i)
    \/ \E ok \in BOOLEAN, i \in ProxyIds : StartProxy(ok, i)
    \/ BackupProxies
    \/ \E mode \in {"append", "overwrite"}, d \in UNION {[1..n -> ProxyConfigs] : n \in 0..MaxPayload} :
          RestoreProxies(mode, d)
    \/ AppRestart
    \/ \E q \in 1..MaxPid : ProcExit(q)

SpecProxy == InitProxy /\ [][NextProxy]_vars

(***************************************************************************)
(* SocatRelay and the table socat_relays: socat.py 65-258                  *)
(***************************************************************************)
\* SocatRelay(port, host, target).start(): socat.py 72-102
RelayStart(spawnOk, listening_port) ==
    /\ IF ~spawnOk
       THEN \* FileNotFoundError or another error: SubprocessError
            /\ last' = Obs("relay_start", listening_port, "raise")
            /\ UNCHANGED <<procs, nextPid>>
       ELSE /\ nextPid <= MaxPid
            /\ procs' = procs \cup {Spawn(nextPid, listening_port)}
            /\ nextPid' = nextPid + 1
            /\ last' = [Obs("relay_start", listening_port, "ok") EXCEPT !.spawns = 1]
    /\ UNCHANGED <<proxyDb, nextProxyId, active_processes, socatDb, nextRelayId>>
    /\ UNCHANGED <<routeVars, codec, reqs>>

\* stop() without the test of self.pid: the signal is sent whatever the probe says
RelayStopUnguarded(obeys, listening_port) ==
    LET pid == RelayPid(procs, listening_port)
    IN  /\ IF pid # NoPid /\ obeys
           THEN /\ procs' = KillGroup(procs, PgidOf(procs, pid))
                /\ last' = [Obs("relay_stop", listening_port, "ok") EXCEPT !.signals = 1]
           ELSE /\ procs' = procs
                /\ last' = [Obs("relay_stop", listening_port, "raise") EXCEPT !.signals = 1]
        /\ UNCHANGED <<nextPid, proxyDb, nextProxyId, active_processes, socatDb, nextRelayId>>
        /\ UNCHANGED <<routeVars, codec, reqs>>

\* SocatRelay.stop(): socat.py 104-120.  obeys: whether the group exits on
\* SIGTERM within the 10 s of proc.wait
RelayStop(obeys, listening_port) ==
    LET pid == RelayPid(procs, listening_port)
    IN  /\ IF pid = NoPid
           THEN \* "socat relay is not running!"
                /\ last' = Obs("relay_stop", listening_port, "ok")
                /\ procs' = procs
           ELSE IF obeys
           THEN /\ procs' = KillGroup(procs, PgidOf(procs, pid))
                /\ last' = [Obs("relay_stop", listening_port, "ok") EXCEPT !.signals = 1]
           ELSE \* psutil.TimeoutExpired
                /\ procs' = procs
                /\ last' = [Obs("relay_stop", listening_port, "raise") EXCEPT !.signals = 1]
        /\ UNCHANGED <<nextPid, proxyDb, nextProxyId, active_processes, socatDb, nextRelayId>>
        /\ UNCHANGED <<routeVars, codec, reqs>>

RelayRows(db, id) == {row \in db : row.id = id}

\* db_insert_socat_relay: socat.py 167-190; listening_port is UNIQUE
RelayInsert(listening_port, target_host, target_port) ==
    /\ IF \E row \in socatDb : row.listening_port = listening_port
       THEN \* sqlite3.IntegrityError
            /\ last' = Obs("db_insert_relay", listening_port, "raise")
            /\ UNCHANGED <<socatDb, nextRelayId>>
       ELSE /\ nextRelayId <= MaxRelayId
            /\ socatDb' = socatDb \cup
                  {[id |-> nextRelayId, listening_port |-> listening_port,
                    target_host |-> target_host, target_port |-> target_port,
                    status |-> "stopped"]}
            /\ nextRelayId' = nextRelayId + 1
            /\ last' = Obs("db_insert_relay", listening_port, "ok")
    /\ UNCHANGED <<procs, nextPid, proxyDb, nextProxyId, active_processes>>
    /\ UNCHANGED <<routeVars, codec, reqs>>

\* db_update_socat_relay(socat_relay_from_db(id), id): socat.py 221-258;
\* the status written is the status getter's probe
RelayUpdate(relay_id) ==
    /\ IF RelayRows(socatDb, relay_id) = {}
       THEN \* dict(None): TypeError
            /\ last' = Obs("db_update_relay", relay_id, "raise")
            /\ socatDb' = socatDb
       ELSE /\ socatDb' = {IF row.id = relay_id
                           THEN [row EXCEPT !.status = RelayStatus(procs, row.listening_port)]
                           ELSE row : row \in socatDb}
            /\ last' = Obs("db_update_relay", relay_id, "ok")
    /\ UNCHANGED <<procs, nextPid, proxyDb, nextProxyId, active_processes, nextRelayId>>
    /\ UNCHANGED <<routeVars, codec, reqs>>

\* db_list_socat_relays(): socat.py 203-211
RelayList ==
    /\ last' = [Obs("db_list_relays", 0, "ok")
                  EXCEPT !.ret = {<<row.id, row.status>> : row \in socatDb}]
    /\ UNCHANGED <<routeVars, codec, reqs>>
    /\ UNCHANGED relayVars

\* db_delete_socat_selay(id): socat.py 213-219
RelayDelete(relay_id) ==
    /\ RelayRows(socatDb, relay_id) # {}
    /\ socatDb' = socatDb \ RelayRows(socatDb, relay_id)
    /\ last' = Obs("db_delete_relay", relay_id, "ok")
    /\ UNCHANGED <<procs, nextPid, proxyDb, nextProxyId, active_processes, nextRelayId>>
    /\ UNCHANGED <<routeVars, codec, reqs>>

NextSocat ==
    \/ \E ok \in BOOLEAN, p \in ListeningPorts : RelayStart(ok, p)
    \/ \E ob \in BOOLEAN, p \in ListeningPorts : RelayStop(ob, p)
    \/ \E c \in ProxyConfigs : RelayInsert(c.listening_port, c.target_host, c.target_port)
    \/ \E i \in 1..MaxRelayId : RelayUpdate(i)
    \/ RelayList
    \/ \E i \in 1..MaxRelayId : RelayDelete(i)
    \/ \E q \in 1..MaxPid : ProcExit(q)
    \/ \E q \in 1..MaxPid : ForkChild(q)

SpecSocat == InitProxy /\ [][NextSocat]_vars

(***************************************************************************)
(* Stopping, for both kinds of relay: the routes of caddy.py and the       *)
(* forwarders of socat.py side by side                                     *)
(***************************************************************************)
\* one route and one forwarder port suffice for a stop and its repetition
StopInputs == {in \in RouteInputs : in.upstream_url = "10.0.0.5:8080" /\ in.port = 80}
StopNames == {DeriveName(0, in.hostname, in.port) : in \in StopInputs}
StopPorts == {9000}

NextStop ==
    \/ \E m \in Modes, in \in StopInputs : CreateRoute(m, in)
    \/ \E m \in Modes, n \in StopNames : StartRoute(m, n)
    \/ \E m \in Modes, n \in StopNames : StopRoute(m, n)
    \/ \E n \in StopNames : ExternalRemove(n)
    \/ \E ok \in BOOLEAN, p \in StopPorts : RelayStart(ok, p)
    \/ \E ob \in BOOLEAN, p \in StopPorts : RelayStop(ob, p)
    \/ \E q \in 1..MaxPid : ProcExit(q)
    \/ \E q \in 1..MaxPid : ForkChild(q)

SpecStop == InitRoute /\ [][NextStop]_vars

(***************************************************************************)
(* Recovery: stop_caddy_server on server blocks that have no record,       *)
(* either because the record was deleted or because another writer         *)
(* published the block                                                     *)
(***************************************************************************)
RecoverNames == StopNames \cup {ForeignName}

NextRecover ==
    \/ \E m \in Modes, in \in StopInputs : CreateRoute(m, in)
    \/ \E m \in Modes, n \in RecoverNames : StopRoute(m, n)
    \/ \E n \in RecoverNames : DbDeleteRoute(n)
    \/ \E n \in RecoverNames : DbGetRoute(n)
    \/ \E b \in ForeignBlocks : ExternalPut(ForeignName, b)
    \/ \E n \in RecoverNames : ExternalRemove(n)

SpecRecover == InitRoute /\ [][NextRecover]_vars

(***************************************************************************)
(* Calls served concurrently.  Flask's development server (app.run, app.py *)
(* 403) serves each request in its own thread and neither module takes a   *)
(* lock, so the statements of two calls interleave.  A call in progress    *)
(* is reqs[t]; `last` is "pending" until a call returns.                   *)
(***************************************************************************)
Pending(op, key) == Obs(op, key, "pending")

Serving(t, pc, op, key, port, pid) ==
    [reqs EXCEPT ![t] = [pc |-> pc, op |-> op, key |-> key, port |-> port, pid |-> pid]]

Returned(t) == [reqs EXCEPT ![t] = NoReq]

\* start_proxy, app.py 301-304: proxy = get_proxy_from_db(proxy_id)
StartRead(t, proxy_id) ==
    /\ reqs[t].pc = "idle"
    /\ IF ProxyRows(proxyDb, proxy_id) = {}
       THEN /\ reqs' = reqs
            /\ last' = Obs("start_proxy", proxy_id, "404")
       ELSE /\ reqs' = Serving(t, "read", "start_proxy", proxy_id,
                               get_proxy_from_db(proxyDb, proxy_id).listening_port, NoPid)
            /\ last' = Pending("start_proxy", proxy_id)
    /\ UNCHANGED <<procs, nextPid, proxyDb, nextProxyId, active_processes, socatDb, nextRelayId>>
    /\ UNCHANGED <<routeVars, codec>>

\* start_proxy, app.py 308-312: process = start_socat_proxy(...)
StartSpawn(t, spawnOk) ==
    /\ reqs[t].pc = "read"
    /\ reqs[t].op = "start_proxy"
    /\ IF ~spawnOk
       THEN /\ reqs' = Returned(t)
            /\ last' = Obs("start_proxy", reqs[t].key, "400")
            /\ UNCHANGED <<procs, nextPid>>
       ELSE /\ nextPid <= MaxPid
            /\ procs' = start_socat_proxy(procs, nextPid, reqs[t].port)
            /\ nextPid' = nextPid + 1
            /\ reqs' = Serving(t, "spawned", "start_proxy", reqs[t].key, reqs[t].port, nextPid)
            /\ last' = Pending("start_proxy", reqs[t].key)
    /\ UNCHANGED <<proxyDb, nextProxyId, active_processes, socatDb, nextRelayId>>
    /\ UNCHANGED <<routeVars, codec>>

\* start_proxy, app.py 314-324: the row and the handle are updated, 200
StartCommit(t) ==
    /\ reqs[t].pc = "spawned"
    /\ reqs[t].op = "start_proxy"
    /\ proxyDb' = update_proxy_status_in_db(proxyDb, reqs[t].key, reqs[t].pid, "running", NoTime)
    /\ active_processes' = (reqs[t].key :> reqs[t].pid) @@ active_processes
    /\ reqs' = Returned(t)
    /\ last' = [Obs("start_proxy", reqs[t].key, "200") EXCEPT !.spawns = 1]
    /\ UNCHANGED <<procs, nextPid, nextProxyId, socatDb, nextRelayId>>
    /\ UNCHANGED <<routeVars, codec>>

NextStartRace ==
    \/ \E ok \in BOOLEAN, c \in ProxyConfigs :
          CreateProxy(ok, c.listening_port, c.target_host, c.target_port)
    \/ \E i \in ProxyIds : StopProxy(i)
    \/ \E t \in Threads, i \in ProxyIds : StartRead(t, i)
    \/ \E t \in Threads, ok \in BOOLEAN : StartSpawn(t, ok)
    \/ \E t \in Threads : StartCommit(t)
    \/ \E q \in 1..MaxPid : ProcExit(q)

SpecStartRace == InitProxy /\ [][NextStartRace]_vars

\* SocatRelay.stop, socat.py 105: if self.pid
StopProbe(t, listening_port) ==
    /\ reqs[t].pc = "idle"
    /\ IF RelayPid(procs, listening_port) = NoPid
       THEN \* socat.py 119-120
            /\ reqs' = reqs
            /\ last' = Obs("relay_stop", listening_port, "ok")
       ELSE /\ reqs' = Serving(t, "probed", "relay_stop", listening_port, listening_port, NoPid)
            /\ last' = Pending("relay_stop", listening_port)
    /\ UNCHANGED <<procs, nextPid, proxyDb, nextProxyId, active_processes, socatDb, nextRelayId>>
    /\ UNCHANGED <<routeVars, codec>>

\* socat.py 106: proc = psutil.Process(self.pid), a second look at the process
\* table; psutil.Process(None) is the calling process itself (pid NoPid here)
StopProcess(t) ==
    /\ reqs[t].pc = "probed"
    /\ reqs' = Serving(t, "process", "relay_stop", reqs[t].key, reqs[t].port,
                       RelayPid(procs, reqs[t].port))
    /\ last' = Pending("relay_stop", reqs[t].key)
    /\ UNCHANGED <<procs, nextPid, proxyDb, nextProxyId, active_processes, socatDb, nextRelayId>>
    /\ UNCHANGED <<routeVars, codec>>

\* socat.py 114: os.killpg(os.getpgid(self.pid), signal.SIGTERM), a third look;
\* os.getpgid(None) is a TypeError
StopSignal(t, obeys) ==
    LET pid == RelayPid(procs, reqs[t].port)
    IN  /\ reqs[t].pc = "process"
        /\ IF pid = NoPid
           THEN /\ reqs' = Returned(t)
                /\ procs' = procs
                /\ last' = Obs("relay_stop", reqs[t].key, "raise")
           ELSE /\ reqs' = [reqs EXCEPT ![t].pc = "signalled"]
                /\ procs' = IF obeys THEN KillGroup(procs, PgidOf(procs, pid)) ELSE procs
                /\ last' = [Pending("relay_stop", reqs[t].key) EXCEPT !.signals = 1]
        /\ UNCHANGED <<nextPid, proxyDb, nextProxyId, active_processes, socatDb, nextRelayId>>
        /\ UNCHANGED <<routeVars, codec>>

\* socat.py 117: proc.wait(timeout=10) on the process of line 106
StopWait(t) ==
    /\ reqs[t].pc = "signalled"
    /\ reqs' = Returned(t)
    /\ last' = [Obs("relay_stop", reqs[t].key,
                    IF reqs[t].pid # NoPid /\ ~Alive(reqs[t].pid) THEN "ok" ELSE "raise")
                  EXCEPT !.signals = 1]
    /\ UNCHANGED <<procs, nextPid, proxyDb, nextProxyId, active_processes, socatDb, nextRelayId>>
    /\ UNCHANGED <<routeVars, codec>>

NextStopRace ==
    \/ \E ok \in BOOLEAN, p \in StopPorts : RelayStart(ok, p)
    \/ \E t \in Threads, p \in StopPorts : StopProbe(t, p)
    \/ \E t \in Threads : StopProcess(t)
    \/ \E t \in Threads, ob \in BOOLEAN : StopSignal(t, ob)
    \/ \E t \in Threads : StopWait(t)
    \/ \E q \in 1..MaxPid : ProcExit(q)

SpecStopRace == InitProxy /\ [][NextStopRace]_vars

(***************************************************************************)
(* get_socat_processes on the process tables the forwarders can form       *)
(***************************************************************************)
\* a socat process that listens on no TCP port (another use of the binary)
OtherSocat ==
    /\ nextPid <= MaxPid
    /\ procs' = procs \cup {[pid |-> nextPid, pgid |-> nextPid, port |-> NoPort]}
    /\ nextPid' = nextPid + 1
    /\ last' = Idle
    /\ UNCHANGED <<proxyDb, nextProxyId, active_processes, socatDb, nextRelayId>>
    /\ UNCHANGED <<routeVars, codec, reqs>>

\* get_socat_processes(): socat.py 27-63
FindOwners(order) ==
    /\ last' = [Obs("get_socat_processes", 0, "ok")
                  EXCEPT !.ret = LET found == ScanLines(PgrepLines(procs, order, 1), <<>>)
                                 IN  {<<port, found[port]>> : port \in DOMAIN found}]
    /\ UNCHANGED <<routeVars, codec>>
    /\ UNCHANGED relayVars

NextOwners ==
    \/ \E ok \in BOOLEAN, p \in ListeningPorts : RelayStart(ok, p)
    \/ OtherSocat
    \/ \E q \in 1..MaxPid : ForkChild(q)
    \/ \E q \in 1..MaxPid : ProcExit(q)
    \* pgrep may list the PIDs in any order
    \/ \E order \in {f \in [1..MaxPid -> 1..MaxPid] :
                        \A i, j \in 1..MaxPid : i # j => f[i] # f[j]} : FindOwners(order)

SpecOwners == InitProxy /\ [][NextOwners]_vars

(***************************************************************************)
(* start_proxy on a port that another process has bound since the relay    *)
(* was created                                                             *)
(***************************************************************************)
\* a process outside the application binds a listening port
OtherListener(listening_port) ==
    /\ nextPid <= MaxPid
    /\ procs' = procs \cup {Spawn(nextPid, listening_port)}
    /\ nextPid' = nextPid + 1
    /\ last' = Idle
    /\ UNCHANGED <<proxyDb, nextProxyId, active_processes, socatDb, nextRelayId>>
    /\ UNCHANGED <<routeVars, codec, reqs>>

NextConflict ==
    \/ \E ok \in BOOLEAN, c \in ProxyConfigs :
          CreateProxy(ok, c.listening_port, c.target_host, c.target_port)
    \/ \E i \in ProxyIds : StopProxy(i)
    \/ \E ok \in BOOLEAN, i \in ProxyIds : StartProxy(ok, i)
    \/ \E p \in ListeningPorts : OtherListener(p)
    \/ \E q \in 1..MaxPid : ProcExit(q)

SpecConflict == InitProxy /\ [][NextConflict]_vars

(***************************************************************************)
(* The status property of both relay classes: a caller assigns a status    *)
(* to the object built from a record and writes the object back, as        *)
(* start_caddy_server and stop_caddy_server do                             *)
(***************************************************************************)

\* server = db_build_caddy_server(name); server.status = value;
\* db_update_caddy_server(server).  The getter's probe raises when the engine
\* is unreachable.
AssignRouteStatus(mode, server_name, value) ==
    LET server == db_build_caddy_server(hashSeed, caddyDb, server_name)
        assigned == SetStatus(server, value)
        obs(outcome) == [Obs("set_status", server_name, outcome)
                           EXCEPT !.mode = mode, !.ret = {<<server_name, value>>}]
    IN  /\ server # NoObject
        /\ IF assigned = StatusRejected \/ mode = "down"
           THEN /\ caddyDb' = caddyDb
                /\ last' = obs("raise")
           ELSE /\ caddyDb' = db_update_caddy_server(caddyDb, assigned,
                                                     GetStatus(caddyCfg, assigned))
                /\ last' = obs("ok")
        /\ UNCHANGED <<hashSeed, codec, caddyCfg, nextRouteId>>
        /\ UNCHANGED relayVars

\* socat_relay_from_db(id): socat.py 244-258
socat_relay_from_db(db, relay_id) ==
    LET row == CHOOSE x \in RelayRows(db, relay_id) : TRUE
    IN  [listening_port |-> row.listening_port, target_host |-> row.target_host,
         target_port |-> row.target_port]

\* relay = socat_relay_from_db(id); relay.status = value;
\* db_update_socat_relay(relay, id)
AssignRelayStatus(relay_id, value) ==
    LET relay == socat_relay_from_db(socatDb, relay_id)
        assigned == RelaySetStatus(relay, value)
        obs(outcome) == [Obs("set_relay_status", relay_id, outcome)
                           EXCEPT !.ret = {<<relay_id, value>>}]
    IN  /\ RelayRows(socatDb, relay_id) # {}
        /\ IF assigned = StatusRejected
           THEN /\ socatDb' = socatDb
                /\ last' = obs("raise")
           ELSE /\ socatDb' = {IF row.id = relay_id
                               THEN [row EXCEPT
                                       !.listening_port = assigned.listening_port,
                                       !.target_host = assigned.target_host,
                                       !.target_port = assigned.target_port,
                                       !.status = RelayGetStatus(procs, assigned)]
                               ELSE row : row \in socatDb}
                /\ last' = obs("ok")
        /\ UNCHANGED <<procs, nextPid, proxyDb, nextProxyId, active_processes, nextRelayId>>
        /\ UNCHANGED <<routeVars, codec, reqs>>

\* one route, one relay of each table, all forwarders on one port
NextStatus ==
    \/ \E m \in Modes, in \in StopInputs : CreateRoute(m, in)
    \/ \E m \in Modes, n \in StopNames : StartRoute(m, n)
    \/ \E m \in Modes, n \in StopNames : StopRoute(m, n)
    \/ \E n \in StopNames : ExternalRemove(n)
    \/ \E m \in Modes, n \in StopNames, v \in {"running", "stopped", "error"} :
          AssignRouteStatus(m, n, v)
    \/ \E p \in StopPorts : RelayInsert(p, "10.0.0.5", 80)
    \/ \E p \in StopPorts : RelayStart(TRUE, p)
    \/ \E i \in 1..MaxRelayId, v \in {"running", "stopped", "error"} : AssignRelayStatus(i, v)
    \/ \E ok \in BOOLEAN, p \in StopPorts : CreateProxy(ok, p, "10.0.0.5", 80)
    \/ \E i \in ProxyIds : StopProxy(i)
    \/ \E ok \in BOOLEAN, i \in ProxyIds : StartProxy(ok, i)
    \/ \E q \in 1..MaxPid : ProcExit(q)

SpecStatus == InitRoute /\ [][NextStatus]_vars

(***************************************************************************)
(* Creates with missing or invalid input                                   *)
(***************************************************************************)
\* a valid route, one with an empty hostname, one with a port out of range
\* and one with an empty upstream
ValidateInputs ==
    {[hostname |-> "a.example", port |-> 80, upstream_url |-> "10.0.0.5:8080",
      tls_trust_pool |-> None, trusted_proxies |-> NoList],
     [hostname |-> "", port |-> 80, upstream_url |-> "10.0.0.5:8080",
      tls_trust_pool |-> None, trusted_proxies |-> NoList],
     [hostname |-> "b.example", port |-> 70000, upstream_url |-> "10.0.0.5:8080",
      tls_trust_pool |-> None, trusted_proxies |-> NoList],
     [hostname |-> "b.example", port |-> 8443, upstream_url |-> "",
      tls_trust_pool |-> None, trusted_proxies |-> NoList]}

\* request bodies of POST /proxy: complete, lacking a key, with a port out of
\* range, with an empty target host
ProxyBodies ==
    {[listening_port |-> 9000, target_host |-> "10.0.0.5", target_port |-> 80],
     [listening_port |-> 9000, target_host |-> "10.0.0.5"],
     [target_host |-> "10.0.0.5", target_port |-> 80],
     [listening_port |-> 70000, target_host |-> "10.0.0.5", target_port |-> 80],
     [listening_port |-> 9001, target_host |-> "", target_port |-> 80],
     [listening_port |-> 9001, target_host |-> "10.0.0.6", target_port |-> 0]}

\* POST /proxy with the body as sent: data['listening_port'] and the other
\* subscripts of app.py 165 raise KeyError for a missing key, answered 500
CreateProxyBody(spawnOk, data) ==
    /\ IF {"listening_port", "target_host", "target_port"} \subseteq DOMAIN data
       THEN create_proxy(spawnOk, data.listening_port, data.target_host, data.target_port)
       ELSE /\ last' = Obs("create_proxy", 0, "500")
            /\ UNCHANGED <<procs, nextPid, proxyDb, nextProxyId, active_processes>>
    /\ UNCHANGED <<routeVars, codec, reqs, socatDb, nextRelayId>>

NextValidate ==
    \/ \E m \in Modes, in \in ValidateInputs : CreateRoute(m, in)
    \/ \E ok \in BOOLEAN, data \in ProxyBodies : CreateProxyBody(ok, data)
    \/ \E i \in ProxyIds : DeleteProxy(i)

SpecValidate == InitRoute /\ [][NextValidate]_vars

(***************************************************************************)
(* Pushes into a configuration that holds other sections                   *)
(***************************************************************************)
NextFrame ==
    \/ \E m \in Modes, in \in RouteInputs : CreateRoute(m, in)
    \/ \E m \in Modes, n \in RouteNames : StopRoute(m, n)
    \/ \E n \in RouteNames : ExternalRemove(n)
    \/ ExternalOther

SpecFrame == InitRoute /\ [][NextFrame]_vars

(***************************************************************************)
(* Starts and stops among several records: two routes and two relays       *)
(***************************************************************************)
FieldInputs == {in \in RouteInputs : in.upstream_url = "10.0.0.5:8080"}
FieldNames == {DeriveName(0, in.hostname, in.port) : in \in FieldInputs}

NextFields ==
    \/ \E in \in FieldInputs : CreateRoute("up", in)
    \/ \E m \in Modes, n \in FieldNames : StartRoute(m, n)
    \/ \E m \in Modes, n \in FieldNames : StopRoute(m, n)
    \/ \E p \in ListeningPorts : CreateProxy(TRUE, p, "10.0.0.5", 80)
    \/ \E ok \in BOOLEAN, i \in ProxyIds : StartProxy(ok, i)
    \/ \E i \in ProxyIds : StopProxy(i)

SpecFields == InitRoute /\ [][NextFields]_vars

(***************************************************************************)
(* Assignments to the fields of a CaddyServer, and objects rebuilt from    *)
(* their records by another instance of the managing process               *)
(***************************************************************************)
\* server.<field> = value on the object last constructed or rebuilt
Assign(field, value) ==
    /\ codec.phase \in {"built", "rebuilt"}
    /\ codec' = [codec EXCEPT !.route = SetAttr(codec.route, field, value)]
    /\ UNCHANGED <<routeVars, last>>
    /\ UNCHANGED relayVars

\* db_build_caddy_server(name) for a recorded name
Rebuild(name) ==
    /\ RowsNamed(caddyDb, name) # {}
    /\ codec' = [phase |-> "rebuilt",
                 route |-> db_build_caddy_server(hashSeed, caddyDb, name),
                 record |-> db_get_caddy_server(caddyDb, name)]
    /\ UNCHANGED <<routeVars, last>>
    /\ UNCHANGED relayVars

NextAssign ==
    \/ \E h \in Hostnames, p \in RoutePorts, u \in Upstreams, t \in TlsPools,
          l \in ProxyLists : Construct(h, p, u, t, l)
    \/ \E n \in RecoverNames : Assign("name", n)
    \/ \E h \in Hostnames : Assign("hostname", h)
    \/ \E p \in RoutePorts : Assign("port", p)
    \/ \E u \in Upstreams : Assign("upstream_url", u)
    \/ \E t \in TlsPools : Assign("tls_trust_pool", t)
    \/ \E l \in ProxyLists : Assign("trusted_proxies", l)
    \/ \E in \in StopInputs : CreateRoute("up", in)
    \/ \E s \in Seeds : Restart(s)
    \/ \E n \in RecoverNames : Rebuild(n)

SpecAssign == InitRoute /\ [][NextAssign]_vars

(***************************************************************************)
(* create_caddy_server served concurrently: the configuration is fetched,  *)
(* merged in memory and posted back whole, without a lock                  *)
(***************************************************************************)
\* caddy.py 205: current_config = get_caddy_config()
CreateFetch(t, in) ==
    LET o == CaddyServer(hashSeed, in.hostname, in.port, in.upstream_url,
                         in.tls_trust_pool, in.trusted_proxies)
    IN  /\ reqs[t].pc = "idle"
        /\ reqs' = [reqs EXCEPT ![t] = [pc |-> "fetched", op |-> "create", key |-> o.name,
                                        port |-> 0, pid |-> 0, server |-> o,
                                        current_config |-> caddyCfg]]
        /\ last' = Pending("create", o.name)
        /\ UNCHANGED <<procs, nextPid, proxyDb, nextProxyId, active_processes, socatDb,
                       nextRelayId>>
        /\ UNCHANGED <<routeVars, codec>>

\* caddy.py 208-229: the server is put into the fetched config and the whole
\* config is posted to /load
CreatePost(t) ==
    /\ reqs[t].pc = "fetched"
    /\ reqs[t].op = "create"
    /\ caddyCfg' = MergedConfig(reqs[t].current_config, reqs[t].server)
    /\ reqs' = [reqs EXCEPT ![t].pc = "posted"]
    /\ last' = [Pending("create", reqs[t].key) EXCEPT !.pushes = 1]
    /\ UNCHANGED <<procs, nextPid, proxyDb, nextProxyId, active_processes, socatDb, nextRelayId>>
    /\ UNCHANGED <<hashSeed, codec, caddyDb, nextRouteId>>

\* caddy.py 235-237: db_insert_caddy_server and return; a duplicate name is
\* an IntegrityError, answered False
CreateInsert(t) ==
    LET dup == RowsNamed(caddyDb, reqs[t].server.name) # {}
    IN  /\ reqs[t].pc = "posted"
        /\ reqs[t].op = "create"
        /\ ~dup => nextRouteId <= MaxRouteId
        /\ caddyDb' = IF dup THEN caddyDb
                      ELSE db_insert_caddy_server(caddyDb, nextRouteId, reqs[t].server)
        /\ nextRouteId' = IF dup THEN nextRouteId ELSE nextRouteId + 1
        /\ reqs' = Returned(t)
        /\ last' = [Obs("create", reqs[t].key, IF dup THEN "false" ELSE "ok")
                      EXCEPT !.pushes = 1]
        /\ UNCHANGED <<procs, nextPid, proxyDb, nextProxyId, active_processes, socatDb,
                       nextRelayId>>
        /\ UNCHANGED <<hashSeed, codec, caddyCfg>>

NextPushRace ==
    \/ \E t \in Threads, in \in FieldInputs : CreateFetch(t, in)
    \/ \E t \in Threads : CreatePost(t)
    \/ \E t \in Threads : CreateInsert(t)
    \/ \E n \in FieldNames : DbDeleteRoute(n)
    \/ \E n \in FieldNames : ExternalRemove(n)

SpecPushRace == InitRoute /\ [][NextPushRace]_vars

(***************************************************************************)
(* Claims                                                                  *)
(***************************************************************************)

\* C1: a route constructed from the same (hostname, port) as the route
\* constructed before it, in this or in an earlier instance of the managing
\* process, gets the same name.
C1_NameStableAcrossRestarts ==
    [][(/\ codec.phase # "none"
        /\ codec'.phase = "built"
        /\ codec'.route.hostname = codec.route.hostname
        /\ codec'.route.port = codec.route.port)
       => codec'.route.name = codec.route.name]_vars

\* C2: decoding the block a route was encoded to yields the route's name,
\* hostname, port, upstream, TLS trust pool and trusted proxies.
C2_RoundTrip ==
    codec.phase = "decoded" => codec.decoded = codec.route

\* C3: a start of a recorded route whose probe reports running returns
\* normally, pushes nothing to the engine and leaves the persisted status running.
C3_StartRunningIsNoOp ==
    [][(/\ last'.op = "start"
        /\ last'.mode # "down"
        /\ Live(caddyCfg, last'.key)
        /\ RowsNamed(caddyDb, last'.key) # {})
       => (/\ last'.outcome = "ok"
           /\ last'.pushes = 0
           /\ \A row \in RowsNamed(caddyDb', last'.key) : row.status = "running")]_vars

\* C4: a successful start of a TCP relay that directly follows a successful
\* start of the same id spawns nothing and changes neither the process table,
\* the record nor the handle.
C4_StartStartSpawnsOnce ==
    [][(/\ last.op = "start_proxy"
        /\ last.outcome = "200"
        /\ last'.op = "start_proxy"
        /\ last'.outcome = "200"
        /\ last'.key = last.key)
       => (/\ last'.spawns = 0
           /\ procs' = procs
           /\ proxyDb' = proxyDb
           /\ active_processes' = active_processes)]_vars

C6_StopPersistsStopped ==
    [][(/\ last'.op = "stop"
        /\ last'.mode # "down"
        /\ ~Live(caddyCfg, last'.key)
        /\ \E row \in RowsNamed(caddyDb, last'.key) : row.status = "running")
       => \A row \in RowsNamed(caddyDb', last'.key) : row.status = "stopped"]_vars

\* C7: no two records of proxy_processes have the same listening port.
C7_ListeningPortUnique ==
    \A r1, r2 \in proxyDb : r1.listening_port = r2.listening_port => r1 = r2

\* C8: a create for a name that is already recorded and published returns
\* False and leaves the engine's configuration as it was.
C8_DuplicateCreateKeepsBlock ==
    [][(/\ last'.op = "create"
        /\ RowsNamed(caddyDb, last'.key) # {}
        /\ Live(caddyCfg, last'.key))
       => (/\ last'.outcome = "false"
           /\ caddyCfg'.servers[last'.key] = caddyCfg.servers[last'.key])]_vars

\* C9: a get of a relay recorded as running whose process no longer exists
\* leaves the record's status stopped.
C9_ReadCorrectsStatus ==
    [][(/\ last'.op = "get_proxy"
        /\ last'.outcome = "200"
        /\ \E row \in ProxyRows(proxyDb, last'.key) :
              /\ row.status = "running"
              /\ row.process_id # NoPid
              /\ ~Alive(row.process_id))
       => \A row \in ProxyRows(proxyDb', last'.key) : row.status = "stopped"]_vars

\* C10: every status a backup returns is the result of probing the record's
\* process during the call.
C10_ReturnedStatusIsLive ==
    last.op = "backup_proxies"
        => \A row \in proxyDb :
              <<row.id, check_process_status(procs, row.process_id)>> \in last.ret

\* C11: with the engine answering, a stop of a live server block that has no
\* record and can be decoded returns normally, leaves no server block of that
\* name and leaves a record of that name, decoded from the block, whose status
\* is stopped.
C11_StopRecoversFromLive ==
    [][(/\ last'.op = "stop"
        /\ last'.mode # "down"
        /\ Live(caddyCfg, last'.key)
        /\ RowsNamed(caddyDb, last'.key) = {}
        /\ DecodeBlock(last'.key, caddyCfg.servers[last'.key]) # NoObject)
       => (/\ last'.outcome = "ok"
           /\ ~Live(caddyCfg', last'.key)
           /\ \E row \in RowsNamed(caddyDb', last'.key) :
                 /\ row.status = "stopped"
                 /\ row.hostname = DecodeBlock(last'.key, caddyCfg.servers[last'.key]).hostname
                 /\ row.port = DecodeBlock(last'.key, caddyCfg.servers[last'.key]).port
                 /\ row.upstream_url =
                        DecodeBlock(last'.key, caddyCfg.servers[last'.key]).upstream_url)]_vars

\* a block published by another writer was stopped: it is gone and recorded
C11_ForeignBlockRecovered ==
    /\ last.op = "stop"
    /\ last.outcome = "ok"
    /\ last.deletes = 1
    /\ last.key = ForeignName
    /\ ~Live(caddyCfg, ForeignName)
    /\ \E row \in RowsNamed(caddyDb, ForeignName) : row.status = "stopped"

\* C12: a stop of a live server block that has no record and lacks a hostname,
\* a port or an upstream raises, issues no DELETE, and changes neither the
\* table nor the engine's configuration.
C12_IncompleteBlockAborts ==
    [][(/\ last'.op = "stop"
        /\ Live(caddyCfg, last'.key)
        /\ RowsNamed(caddyDb, last'.key) = {}
        /\ DecodeBlock(last'.key, caddyCfg.servers[last'.key]) = NoObject)
       => (/\ last'.outcome = "raise"
           /\ last'.deletes = 0
           /\ UNCHANGED routeVars)]_vars

\* the stop of an undecodable block raised while the engine answered
C12_IncompleteBlockRefused ==
    /\ last.op = "stop"
    /\ last.outcome = "raise"
    /\ last.mode # "down"
    /\ last.deletes = 0
    /\ Live(caddyCfg, last.key)
    /\ RowsNamed(caddyDb, last.key) = {}
    /\ DecodeBlock(last.key, caddyCfg.servers[last.key]) = NoObject

\* C13: a create or a start keeps every server block published under another
\* name as it was.
C13_PushKeepsOtherServers ==
    [][(last'.op \in {"create", "start"})
       => \A n \in (DOMAIN caddyCfg.servers) \ {last'.key} :
             /\ n \in DOMAIN caddyCfg'.servers
             /\ caddyCfg'.servers[n] = caddyCfg.servers[n]]_vars

\* a create was pushed while another server was published, and both are live
C13_PushedBesideAnother ==
    /\ last.op = "create"
    /\ last.pushes = 1
    /\ last.outcome = "ok"
    /\ Live(caddyCfg, last.key)
    /\ \E n \in DOMAIN caddyCfg.servers : n # last.key

\* C14: of two start calls for the same relay id that are in progress at the
\* same time, at most one has spawned a forwarder.
C14_StartsSerialized ==
    \A t1, t2 \in Threads :
        (/\ t1 # t2
         /\ reqs[t1].op = "start_proxy"
         /\ reqs[t2].op = "start_proxy"
         /\ reqs[t1].key = reqs[t2].key
         /\ reqs[t1].pc = "spawned")
        => reqs[t2].pc # "spawned"

\* C17: a SocatRelay.stop raises only while a forwarder of its port is still
\* running; it never raises once the port has no process.
C17_StopNeverRaisesForExited ==
    [][(/\ last'.op = "relay_stop"
        /\ last'.outcome = "raise")
       => \E q \in procs' : q.port = last'.key]_vars

\* C15: a start of a route recorded as stopped that raises because the engine
\* is unreachable or rejects the push leaves the table as it was.
C15_FailedStartKeepsRecord ==
    [][(/\ last'.op = "start"
        /\ last'.mode \in {"down", "reject"}
        /\ last'.outcome = "raise"
        /\ \E row \in RowsNamed(caddyDb, last'.key) : row.status = "stopped")
       => caddyDb' = caddyDb]_vars

\* C16: a SocatRelay.stop that finds a forwarder on its port returns normally
\* and leaves no process of that forwarder's group.
C16_StopEscalates ==
    [][(/\ last'.op = "relay_stop"
        /\ RelayPid(procs, last'.key) # NoPid)
       => (/\ last'.outcome = "ok"
           /\ \A q \in procs' : q.pgid # PgidOf(procs, RelayPid(procs, last'.key)))]_vars

C20_CreateDoesNotStart ==
    (last.op = "create_proxy" /\ last.outcome = "201")
        => (/\ last.spawns = 0
            /\ \A row \in proxyDb :
                  row.id = nextProxyId - 1
                      => (row.status = "stopped" /\ row.process_id = NoPid))

\* C19: whatever the order of pgrep's lines, get_socat_processes returns a
\* mapping whose keys are exactly the ports some process listens on and whose
\* value for a port is the smallest PID among the processes listening on it.
C19_OwnersAreLowestPids ==
    last.op = "get_socat_processes"
        => /\ {pair[1] : pair \in last.ret} = {q.port : q \in procs} \ {NoPort}
           /\ \A pair \in last.ret :
                 /\ \E q \in procs : q.port = pair[1] /\ q.pid = pair[2]
                 /\ \A q \in procs : q.port = pair[1] => pair[2] <= q.pid
           /\ \A p1, p2 \in last.ret : p1[1] = p2[1] => p1 = p2

\* the scan met two processes on one port, and a port nobody listens on is absent
C19_TwoOnOnePort ==
    /\ last.op = "get_socat_processes"
    /\ \E q1, q2 \in procs : q1.port = q2.port /\ q1.pid # q2.pid /\ q1.port # NoPort
    /\ \E p \in ListeningPorts : \A pair \in last.ret : pair[1] # p

\* C21: a stop or a delete of a relay whose recorded process is alive and
\* whose id has no handle in active_processes, answered with 200, leaves no
\* process on the relay's listening port.
C21_StopWithoutHandle ==
    [][(/\ last'.op \in {"stop_proxy", "delete_proxy"}
        /\ last'.outcome = "200"
        /\ ~HasHandle(last'.key)
        /\ \E row \in ProxyRows(proxyDb, last'.key) : Alive(row.process_id))
       => \A row \in ProxyRows(proxyDb, last'.key) :
             \A q \in procs' : q.port # row.listening_port]_vars

\* C22: a start of a relay recorded as stopped whose listening port is held
\* by a running process is answered with an error, spawns nothing and leaves
\* the record's status stopped.
C22_StartRevalidatesPort ==
    [][(/\ last'.op = "start_proxy"
        /\ \E row \in ProxyRows(proxyDb, last'.key) :
              /\ row.status = "stopped"
              /\ \E q \in procs : q.port = row.listening_port)
       => (/\ last'.outcome # "200"
           /\ last'.spawns = 0
           /\ procs' = procs
           /\ \A row \in ProxyRows(proxyDb', last'.key) : row.status = "stopped")]_vars

\* C23: every record of caddy_servers, socat_relays and proxy_processes has
\* status running or stopped, and an assignment of any other value to the
\* status of a route or relay object raises.
C23_StatusIsRunningOrStopped ==
    /\ \A row \in caddyDb \cup socatDb \cup proxyDb : row.status \in {"running", "stopped"}
    /\ (/\ last.op \in {"set_status", "set_relay_status"}
        /\ \E pair \in last.ret : pair[2] \notin {"running", "stopped"})
       => last.outcome = "raise"

\* an assignment of another value raised while records of all three tables
\* existed, one of them running and one stopped
C23_OtherValueRejected ==
    /\ last.op \in {"set_status", "set_relay_status"}
    /\ last.outcome = "raise"
    /\ last.mode = "up"
    /\ \E pair \in last.ret : pair[2] = "error"
    /\ caddyDb # {} /\ socatDb # {} /\ proxyDb # {}
    /\ \E r1, r2 \in caddyDb \cup socatDb \cup proxyDb :
          r1.status = "running" /\ r2.status = "stopped"

\* C27: the status a start, a stop or an assign-and-update writes to a record
\* of caddy_servers is the engine's answer for that name at the time of the
\* write, and the status an assign-and-update writes to a record of
\* socat_relays is the probe of its listening port, whatever value was assigned.
C27_WrittenStatusIsProbe ==
    [][/\ (last'.op \in {"start", "stop", "set_status"})
          => \A row \in RowsNamed(caddyDb', last'.key) :
                row \notin caddyDb => row.status = ProbeStatus(caddyCfg', last'.key)
       /\ (last'.op = "set_status" /\ last'.outcome = "ok")
          => \A row \in RowsNamed(caddyDb', last'.key) :
                row.status = ProbeStatus(caddyCfg, last'.key)
       /\ (last'.op = "set_relay_status" /\ last'.outcome = "ok")
          => \A row \in RelayRows(socatDb', last'.key) :
                row.status = RelayStatus(procs, row.listening_port)]_vars

\* stopped was assigned to a route whose block is live, running to a relay
\* whose port has no process: the records say running and stopped
C27_AssignedValueIgnored ==
    \/ /\ last.op = "set_status"
       /\ last.outcome = "ok"
       /\ <<last.key, "stopped">> \in last.ret
       /\ \E row \in RowsNamed(caddyDb, last.key) : row.status = "running"
       /\ \E row \in socatDb : row.status = "running"
    \/ /\ last.op = "set_relay_status"
       /\ last.outcome = "ok"
       /\ <<last.key, "running">> \in last.ret
       /\ \E row \in RelayRows(socatDb, last.key) : row.status = "stopped"
       /\ \E row \in caddyDb : row.status = "running"

\* C24: no record, no published server block and no forwarder carries an
\* empty hostname, an empty upstream or target host, or a port outside
\* 1..65535; a create whose body lacks a field is not answered 201 and changes
\* nothing.
C24_InvalidCreateRejected ==
    /\ \A row \in caddyDb :
          row.hostname # "" /\ row.upstream_url # "" /\ row.port \in 1..65535
    /\ \A n \in DOMAIN caddyCfg.servers :
          LET f == DecodeBlock(n, caddyCfg.servers[n])
          IN  f # NoObject /\ f.port \in 1..65535
    /\ \A row \in proxyDb :
          /\ row.listening_port \in 1..65535
          /\ row.target_port \in 1..65535
          /\ row.target_host # ""
    /\ \A q \in procs : q.port \in 1..65535
    /\ (last.op = "create_proxy" /\ last.key = 0) => last.outcome = "500"

\* C25: a create or a start leaves the sections of the engine's configuration
\* other than the HTTP servers as they were, also when the configuration
\* holds no HTTP server.
C25_PushKeepsOtherSections ==
    [][(last'.op \in {"create", "start"}) => caddyCfg'.other = caddyCfg.other]_vars

\* C26: a start or a stop of a recorded route changes at most the status of
\* the record of that name, and a start or a stop of a relay changes at most
\* the status, the process id and the stop time of the record of that id; all
\* other fields and all other records stay as they were.
C26_StartStopFrame ==
    [][/\ (last'.op \in {"start", "stop"} /\ RowsNamed(caddyDb, last'.key) # {})
          => (/\ \A row \in caddyDb : row.name # last'.key => row \in caddyDb'
              /\ \A row \in caddyDb' : row.name # last'.key => row \in caddyDb
              /\ \A old \in RowsNamed(caddyDb, last'.key) :
                    \E new \in caddyDb' : new = [old EXCEPT !.status = new.status]
              /\ Cardinality(caddyDb') = Cardinality(caddyDb))
       /\ (last'.op \in {"start_proxy", "stop_proxy"})
          => (/\ \A row \in proxyDb : row.id # last'.key => row \in proxyDb'
              /\ \A row \in proxyDb' : row.id # last'.key => row \in proxyDb
              /\ \A old \in ProxyRows(proxyDb, last'.key) :
                    \E new \in proxyDb' :
                       new = [old EXCEPT !.status = new.status,
                                         !.process_id = new.process_id,
                                         !.stop_time = new.stop_time]
              /\ Cardinality(proxyDb') = Cardinality(proxyDb))]_vars

\* a start or stop changed one record while a record of the same table with
\* another status stood beside it
C26_OneOfTwoChanged ==
    \/ /\ last.op \in {"start", "stop"}
       /\ last.outcome = "ok"
       /\ \E r1, r2 \in caddyDb :
             r1.name = last.key /\ r2.name # last.key /\ r1.status # r2.status
    \/ /\ last.op \in {"start_proxy", "stop_proxy"}
       /\ last.outcome = "200"
       /\ \E r1, r2 \in proxyDb :
             r1.id = last.key /\ r2.id # last.key /\ r1.status # r2.status

\* C28: the server_config of a constructed or rebuilt object, also after
\* assignments to its fields, is keyed by the object's current name and holds
\* the encoding of its current fields; an object rebuilt from a record is
\* keyed by the recorded name.
C28_ConfigFollowsFields ==
    codec.phase \in {"built", "rebuilt"}
        => /\ codec.route.server_config.key = codec.route.name
           /\ codec.route.server_config.block = build_config(codec.route)
           /\ (codec.phase = "rebuilt" /\ codec.route.name = codec.record.name)
                 => codec.route.server_config.key = codec.record.name

\* an object rebuilt by an instance that would derive another name, and then
\* assigned another port, is keyed by the recorded name
C28_RebuiltUnderOtherSeed ==
    /\ codec.phase = "rebuilt"
    /\ codec.route.name = codec.record.name
    /\ codec.route.name # DeriveName(hashSeed, codec.route.hostname, codec.route.port)
    /\ codec.route.port # codec.record.port
    /\ codec.route.server_config.key = codec.record.name

\* C29: the POST of a create that runs while a create for another name is in
\* progress or has just posted keeps every server block the engine holds.
C29_ConcurrentPushesKeepBoth ==
    [][(last'.op = "create" /\ last'.pushes = 1 /\ caddyCfg' # caddyCfg)
       => \A n \in DOMAIN caddyCfg.servers : n \in DOMAIN caddyCfg'.servers]_vars

\* C30: a restore that is answered with an error leaves the table
\* proxy_processes as it was before the call.
C30_FailedRestoreChangesNothing ==
    [][(last'.op = "restore_proxies" /\ last'.outcome # "200") => proxyDb' = proxyDb]_vars

\* C31: every id that has a handle in active_processes has a row in
\* proxy_processes; no operation removes a row and leaves its handle behind.
C31_HandleHasRecord ==
    \A proxy_id \in DOMAIN active_processes : ProxyRows(proxyDb, proxy_id) # {}

====
